---- MODULE Spec2Model ----
(***************************************************************************)
(* ttk::SurfaceQuadrangulation (core/base/surfaceQuadrangulation).         *)
(*                                                                         *)
(* Arrays of the program are sequences here; the element the code writes   *)
(* a[i] (0-based) is At(a, i).  Critical points, separatrix rows and       *)
(* triangulation vertices keep their 0-based indices.                      *)
(*                                                                         *)
(* Three places of the code read or write memory they do not own:          *)
(*   - hasCommonManifold asks for neighbour j of the dequeued vertex with  *)
(*     j below the neighbour count of the START vertex (line 33); for a    *)
(*     dequeued vertex with fewer neighbours `next` (line 35) is never     *)
(*     assigned;                                                           *)
(*   - quadrangulate sizes the destination table by the number of edges    *)
(*     (line 141) and indexes it by critical point (line 151);             *)
(*   - findSeparatrixMiddle reads sepFlatEdgesPos[i + 1] for the last i    *)
(*     (line 310); dualQuadrangulate reads criticalPointsType_[N] when a   *)
(*     cell id matches no critical point (lines 87-97, 111-119).           *)
(* Each is a nondeterministic choice over a bounded set of outcomes.       *)
(***************************************************************************)
EXTENDS Integers, Sequences, FiniteSets, TLC

VARIABLES
  criticalPointsNumber,      \* N
  criticalPointsType,        \* 0 minimum, 1 saddle, 2 maximum
  criticalPointsCellIds,
  criticalPointsIdentifier,  \* vertex of each critical point
  sepCellIds,                \* one cell id per separatrix sample (row)
  sepMask,                   \* 0 kept, 1 excluded
  sepPoints,                 \* 3 coordinates per row
  segmentation,              \* label per triangulation vertex
  vertexNeighbors,           \* triangulation: neighbour list per vertex
  dualQuadrangulation,       \* mode flag
  outputCells,
  outputPoints,
  ret,                       \* what the last execute returned
  ndegen,                    \* execute's degenerate-quad counter
  builder,                   \* which builder the last execute ran
  tableOverrun,              \* the last execute indexed past the table
  validQuad,                 \* results of hasCommonManifold in quadrangulate
  calls,                     \* hasCommonManifold calls made directly
  sepMiddles,                \* cache shared by findSeparatrixMiddle calls
  lastCall                   \* the latest findSeparatrixMiddle call

vars == <<criticalPointsNumber, criticalPointsType, criticalPointsCellIds,
          criticalPointsIdentifier, sepCellIds, sepMask, sepPoints,
          segmentation, vertexNeighbors, dualQuadrangulation, outputCells,
          outputPoints, ret, ndegen, builder, tableOverrun, validQuad,
          calls, sepMiddles, lastCall>>

(***************************************************************************)
(* Bounds of the model.                                                    *)
(***************************************************************************)
\* separatrix samples in an input
MaxSamples == 8
\* points in one hasCommonManifold call
MaxVerts == 3
\* vertices of the large triangulations
NumVertices == 23
\* findSeparatrixMiddle calls sharing one cache
MaxCalls == 3
\* separatrix samples of those calls
MiddleSamples == 4

(***************************************************************************)
(* Program constants.                                                      *)
(***************************************************************************)
\* the cap of the traversal, line 41
VisitCap == 20
\* values per quad in the cell buffer, lines 124-128 and 239
CellStride == 5
\* the leading value of a quad, lines 124 and 208
QuadSize == 4
\* coordinates per point, line 317
dim == 3
\* the mask value that excludes a sample, lines 276 and 384
Masked == 1

(***************************************************************************)
(* Helpers.                                                                *)
(***************************************************************************)
At(a, i) == a[i + 1]

Indices(a) == 0..(Len(a) - 1)

Abs(x) == IF x < 0 THEN -x ELSE x

Min(S) == CHOOSE x \in S : \A y \in S : x <= y

RECURSIVE SortedSeq(_)
SortedSeq(S) ==
  IF S = {} THEN <<>> ELSE <<Min(S)>> \o SortedSeq(S \ {Min(S)})

RECURSIVE Flatten(_)
Flatten(ss) ==
  IF ss = <<>> THEN <<>> ELSE Head(ss) \o Flatten(Tail(ss))

\* the pairs <<x, y>> of 0..n-1 in the order of two nested ascending loops
PairsInOrder(n) ==
  [x \in 1..(n * n) |-> <<(x - 1) \div n, (x - 1) % n>>]

(***************************************************************************)
(* Triangulation (external collaborator, spec section 6).                  *)
(***************************************************************************)
Vertices == Indices(vertexNeighbors)

getVertexNeighborNumber(v) == Len(At(vertexNeighbors, v))

\* The values `next` can hold after getVertexNeighbor(curr, j, next): the
\* neighbour when curr has one at j; otherwise next was never assigned
\* (line 35) and holds any vertex id.
getVertexNeighbor(curr, j) ==
  IF j < getVertexNeighborNumber(curr)
  THEN {At(At(vertexNeighbors, curr), j)}
  ELSE Vertices

(***************************************************************************)
(* hasCommonManifold, lines 7-74.                                          *)
(***************************************************************************)
\* faulty variant: the cap tested one vertex later
BreakTestLate(processedNeighbors) ==
  Cardinality(processedNeighbors) > VisitCap + 1

\* line 41
BreakTest(processedNeighbors) ==
  Cardinality(processedNeighbors) > VisitCap

\* lines 34-40: the queues the loop over j can leave
RECURSIVE NeighborLoop(_, _, _, _, _)
NeighborLoop(curr, j, nneigh, queue, processedNeighbors) ==
  IF j >= nneigh
  THEN {queue}
  ELSE UNION { NeighborLoop(curr, j + 1, nneigh,
                            IF next \in processedNeighbors
                            THEN queue ELSE Append(queue, next),
                            processedNeighbors)
               : next \in getVertexNeighbor(curr, j) }

\* lines 29-40: one iteration of the while loop started for vertex start
WhileBody(start, s) ==
  LET curr == Head(s.queue)
      processed1 == s.processed \cup {curr}
      labels1 == s.labels \cup {At(segmentation, curr)}
      nneigh == getVertexNeighborNumber(start)
  IN { [queue |-> q, processed |-> processed1, labels |-> labels1]
       : q \in NeighborLoop(curr, 0, nneigh, Tail(s.queue), processed1) }

\* lines 28 and 41-43: the loop ends on an empty queue or on the cap
LoopEnded(s) == s.queue = <<>> \/ BreakTest(s.processed)

RECURSIVE WhileLoop(_, _)
WhileLoop(start, S) ==
  LET ended == {s \in S : LoopEnded(s)}
      live == S \ ended
  IN IF live = {}
     THEN ended
     ELSE ended \cup WhileLoop(start, UNION {WhileBody(start, s) : s \in live})

\* lines 23-44 for one input vertex: the (visited vertices, labels) it can
\* end with
Traverse(start) ==
  { [processed |-> s.processed, labels |-> s.labels]
    : s \in WhileLoop(start, {[queue |-> <<start>>, processed |-> {},
                               labels |-> {}]}) }

\* lines 21-45, once per critical point: what the traversal started at its
\* vertex can end with. Entry p + 1 is for critical point p.
RECURSIVE Traversals(_)
Traversals(n) ==
  IF n = 0
  THEN <<>>
  ELSE Append(Traversals(n - 1),
              Traverse(At(criticalPointsIdentifier, n - 1)))

\* lines 21-45: the label sets common_manifolds[i] can hold, from the
\* outcomes of the traversal
LabelSets(outcomes) == { t.labels : t \in outcomes }

\* the most vertices a traversal with these outcomes can visit
MostVisited(outcomes) ==
  LET counts == { Cardinality(t.processed) : t \in outcomes }
  IN CHOOSE c \in counts : \A o \in counts : o <= c

\* lines 48-57: the sets `last` can hold after folding the intersections
\* left to right over the remaining points
RECURSIVE Intersect(_, _, _)
Intersect(lasts, traversals, verts) ==
  IF verts = <<>>
  THEN lasts
  ELSE Intersect({ last \cap m : last \in lasts,
                                 m \in LabelSets(At(traversals, Head(verts))) },
                 traversals, Tail(verts))

\* lines 21-74: the booleans the call can return, the traversals given
CommonManifold(traversals, verts) ==
  { last # {} : last \in Intersect(LabelSets(At(traversals, Head(verts))),
                                   traversals, Tail(verts)) }

\* lines 7-74: the booleans hasCommonManifold(verts) can return
hasCommonManifold(verts) ==
  CommonManifold(Traversals(criticalPointsNumber), verts)

(***************************************************************************)
(* The separatrix filter, lines 273-280 and 380-404.                       *)
(***************************************************************************)
separatriceNumber == Len(sepCellIds)

\* lines 383-388 (and 275-280): the rows i < n whose mask is not 1
RECURSIVE KeptRows(_)
KeptRows(n) ==
  IF n = 0
  THEN <<>>
  ELSE IF At(sepMask, n - 1) = Masked
       THEN KeptRows(n - 1)
       ELSE Append(KeptRows(n - 1), n - 1)

\* lines 381-388
sepFlatEdges ==
  LET rows == KeptRows(separatriceNumber)
  IN [x \in 1..Len(rows) |-> At(sepCellIds, rows[x])]

\* lines 273-280: (cell id, row) of every kept sample
sepFlatEdgesPos ==
  LET rows == KeptRows(separatriceNumber)
  IN [x \in 1..Len(rows) |-> <<At(sepCellIds, rows[x]), rows[x]>>]

\* lines 399-404
sepEdges(flat) ==
  [x \in 1..(Len(flat) \div 2) |-> <<flat[2 * x - 1], flat[2 * x]>>]

(***************************************************************************)
(* dualQuadrangulate, lines 76-133.                                        *)
(***************************************************************************)
TypeValues == {0, 1, 2}

\* lines 87-91 and 93-97: the first critical point with this cell id, or
\* criticalPointsNumber when the loop runs to its end
FirstMatch(cell) ==
  LET found == {i \in Indices(criticalPointsCellIds) :
                  At(criticalPointsCellIds, i) = cell}
  IN IF found = {} THEN criticalPointsNumber ELSE Min(found)

\* the values a read of criticalPointsType_[i] can give: past the end of
\* the array it gives any value
TypeRead(i) ==
  IF i < criticalPointsNumber THEN {At(criticalPointsType, i)} ELSE TypeValues

SameType(a, b) == { ta = tb : ta \in TypeRead(a), tb \in TypeRead(b) }

\* lines 85-101: sourceDests[i], the destinations of source i in the order
\* of the edges
sourceDests(edges, i) ==
  LET own == SelectSeq(edges, LAMBDA p : FirstMatch(p[1]) = i)
  IN [x \in 1..Len(own) |-> FirstMatch(own[x][2])]

SourceKeys(edges) == { FirstMatch(edges[x][1]) : x \in 1..Len(edges) }

\* faulty variant: the source takes the first corner
DualQuadFromSource(source, extrema) ==
  { <<source, extrema[2], extrema[3], extrema[4]>> }

\* lines 106-123: the corners (i, j, k, l) of the quad of one source
DualQuad(source, extrema) ==
  LET i == extrema[1]
  IN { IF b1 THEN <<i, extrema[3], extrema[2], extrema[4]>>
       ELSE IF b2 THEN <<i, extrema[2], extrema[3], extrema[4]>>
       ELSE IF b3 THEN <<i, extrema[3], extrema[4], extrema[2]>>
       ELSE <<i, i, i, i>>
       : b1 \in SameType(extrema[2], i),
         b2 \in SameType(extrema[3], i),
         b3 \in SameType(extrema[4], i) }

\* line 105
HasFourDests(extrema) == Len(extrema) = 4

\* lines 103-130: the cell buffers the loop over the sources (ascending,
\* std::map order) can append
RECURSIVE DualCells(_, _)
DualCells(edges, keys) ==
  IF keys = <<>>
  THEN {<<>>}
  ELSE LET extrema == sourceDests(edges, Head(keys))
           quads == IF HasFourDests(extrema)
                    THEN { <<QuadSize>> \o q : q \in DualQuad(Head(keys), extrema) }
                    ELSE {<<>>}
       IN { q \o rest : q \in quads, rest \in DualCells(edges, Tail(keys)) }

dualQuadrangulate(edges) == DualCells(edges, SortedSeq(SourceKeys(edges)))

(***************************************************************************)
(* quadrangulate: the builder, lines 135-231.                              *)
(***************************************************************************)
\* faulty variant: the cell ids compared with >= instead of ==
MatchesAtLeast(cell) ==
  {i \in Indices(criticalPointsCellIds) : At(criticalPointsCellIds, i) >= cell}

\* lines 147-150: every critical point with this cell id (no break)
Matches(cell) ==
  {i \in Indices(criticalPointsCellIds) : At(criticalPointsCellIds, i) = cell}

\* lines 146-158: the (source i, destination j) the body at lines 151-154
\* runs for, over all edges
Inserts(edges) ==
  UNION { Matches(edges[x][1]) \X Matches(edges[x][2]) : x \in 1..Len(edges) }

\* line 141: the table has one entry per edge
TableLength(edges) == Len(edges)

\* line 151 indexes the table by j: true when some j is past its end
IndexPastTable(edges) ==
  \E e \in Inserts(edges) : e[2] >= TableLength(edges)

\* lines 141 and 151: sepMappingDests, for the entries the table has
sepMappingDests(edges) ==
  LET ins == Inserts(edges)
  IN [d \in 0..(TableLength(edges) - 1) |-> { e[1] : e \in {f \in ins : f[2] = d} }]

\* lines 144, 152 and 154: pointSepNumber
pointSepNumber(edges) ==
  [c \in 0..(criticalPointsNumber - 1) |->
     LET hits(x) == Matches(edges[x][1]) \X Matches(edges[x][2])
         n[x \in 0..Len(edges)] ==
           IF x = 0
           THEN 0
           ELSE n[x - 1] + Cardinality({e \in hits(x) : e[2] = c})
                         + Cardinality({e \in hits(x) : e[1] = c})
     IN n[Len(edges)]]

\* lines 216-218
IsDegenerate(table, common, i, k) ==
  /\ Len(common) = 1
  /\ \/ Cardinality(table[i]) = 1
     \/ Cardinality(table[k]) = 1

\* lines 192-194: (m, n) with m < n, in loop order
SourcePairs(common) ==
  SelectSeq(PairsInOrder(Len(common)), LAMBDA mn : mn[1] < mn[2])

\* lines 164, 171 and 177
SkipPair(table, i, k) ==
  \/ table[i] = {}
  \/ table[k] = {}
  \/ At(criticalPointsType, k) = At(criticalPointsType, i)

\* lines 181-229 for one pair (i, k): the quads it considers, in order; a
\* quad of the first branch is emitted when hasCommonManifold allows it
PairQuads(table, i, k) ==
  IF SkipPair(table, i, k)
  THEN <<>>
  ELSE LET common_dests == SortedSeq(table[i] \cap table[k])
           mn == SourcePairs(common_dests)
       IN IF Len(common_dests) >= 2
          THEN [x \in 1..Len(mn) |->
                  [degenerate |-> FALSE,
                   quad |-> <<i, At(common_dests, mn[x][1]), k,
                              At(common_dests, mn[x][2])>>]]
          ELSE IF IsDegenerate(table, common_dests, i, k)
               THEN << [degenerate |-> TRUE,
                        quad |-> <<i, common_dests[1], k, common_dests[1]>>] >>
               ELSE <<>>

\* lines 162-169: the pairs (i, k), k from i + 1, over the table
DestPairs(length) ==
  SelectSeq(PairsInOrder(length), LAMBDA ik : ik[1] < ik[2])

\* lines 162-231: every quad the two loops consider, in emission order
CandidateQuads(edges) ==
  LET table == sepMappingDests(edges)
      pairs == DestPairs(TableLength(edges))
  IN Flatten([x \in 1..Len(pairs) |-> PairQuads(table, pairs[x][1], pairs[x][2])])

\* line 204: the results hasCommonManifold can give for the candidates (a
\* degenerate quad is not tested)
Validations(cands) ==
  { v \in [1..Len(cands) -> BOOLEAN] :
      \A x \in 1..Len(cands) :
        IF cands[x].degenerate
        THEN v[x]
        ELSE v[x] \in hasCommonManifold(<<cands[x].quad[2], cands[x].quad[4]>>) }

\* lines 207-213 and 223-228: the cell buffer after the loops
EmittedCells(cands, v) ==
  Flatten([x \in 1..Len(cands) |->
             IF v[x] THEN <<QuadSize>> \o cands[x].quad ELSE <<>>])

\* faulty variant: the counter is raised for every quad considered
CountAllQuads(cands) == Len(cands)

\* line 221
CountDegenerate(cands) ==
  Len(SelectSeq(cands, LAMBDA c : c.degenerate))

(***************************************************************************)
(* findSeparatrixMiddle, lines 299-365.                                    *)
(***************************************************************************)
\* row r of sepPoints_
PointAt(r) == <<At(sepPoints, dim * r), At(sepPoints, dim * r + 1),
                At(sepPoints, dim * r + 2)>>

\* ttk::Geometry::distance between two samples (external; exact for the
\* axis-aligned polylines of the model)
Distance(p, q) == Abs(p[1] - q[1]) + Abs(p[2] - q[2]) + Abs(p[3] - q[3])

\* lines 329-344: distFromA, the arc length from row a to each row of a..b
distFromA(a, b) ==
  LET d[i \in 0..(b - a)] ==
        IF i = 0
        THEN 0
        ELSE d[i - 1] + Distance(PointAt(a + i), PointAt(a + i - 1))
  IN d

\* lines 346-353: the first row of a..b whose arc length from a is nearest
\* to half the length of the span (twice the distance, to stay in integers)
SeparatrixMiddle(a, b) ==
  LET dist == distFromA(a, b)
      distAB == dist[b - a]
      el == [i \in 0..(b - a) |-> Abs(2 * dist[i] - distAB)]
  IN a + Min({i \in 0..(b - a) : \A o \in 0..(b - a) :
                 el[i] < el[o] \/ (el[i] = el[o] /\ i <= o)})

\* line 310 for the last i reads one entry past the list: the row it finds
\* there
GarbageRows == 0..(separatriceNumber - 1)

\* lines 308-315: the lists sepBounds can hold after the scan. The entry
\* past the end may or may not carry dst's cell id.
sepBounds(src, dst, pos) ==
  LET inside == SelectSeq([x \in 1..(Len(pos) - 1) |-> x],
                          LAMBDA x :
                            /\ pos[x][1] = At(criticalPointsCellIds, src)
                            /\ pos[x + 1][1] = At(criticalPointsCellIds, dst))
      base == [y \in 1..Len(inside) |->
                 <<pos[inside[y]][2], pos[inside[y] + 1][2]>>]
  IN IF Len(pos) > 0 /\ pos[Len(pos)][1] = At(criticalPointsCellIds, src)
     THEN {base} \cup { Append(base, <<pos[Len(pos)][2], g>>) : g \in GarbageRows }
     ELSE {base}

\* lines 324-327
IsCached(middles, a, b) == \E e \in middles : e[1] = <<a, b>>

\* lines 319-362: the loop over sepBounds, from the state st of the point
\* buffer and the cache. A span that ends before it starts makes
\* b - a + 1 wrap (line 329) and the run aborts.
RECURSIVE MiddlesLoop(_, _)
MiddlesLoop(bounds, st) ==
  IF bounds = <<>> \/ st.aborted
  THEN st
  ELSE LET a == Head(bounds)[1]
           b == Head(bounds)[2]
           id == SeparatrixMiddle(a, b)
       IN IF IsCached(st.middles, a, b)
          THEN MiddlesLoop(Tail(bounds), st)
          ELSE IF b < a
               THEN [st EXCEPT !.aborted = TRUE]
               ELSE MiddlesLoop(Tail(bounds),
                                [points |-> st.points \o PointAt(id),
                                 middles |-> st.middles \cup {<<<<a, b>>, id>>},
                                 aborted |-> FALSE])

\* the states one call can leave
findSeparatrixMiddle(src, dst, pos, st) ==
  { MiddlesLoop(bounds, st) : bounds \in sepBounds(src, dst, pos) }

(***************************************************************************)
(* quadrangulate: the post-processing, lines 233-296.                      *)
(***************************************************************************)
quadNumber(cells) == Len(cells) \div CellStride

\* lines 237-244
pointQuadNumber(cells) ==
  [c \in 0..(criticalPointsNumber - 1) |->
     Cardinality({x \in 1..(CellStride * quadNumber(cells)) :
                    (x - 1) % CellStride # 0 /\ cells[x] = c})]

\* lines 247-254
badPoints(cells, sepNumber) ==
  LET quads == pointQuadNumber(cells)
  IN {c \in 0..(criticalPointsNumber - 1) : quads[c] < sepNumber[c]}

\* lines 257-271
badQuads(cells, bad) ==
  SelectSeq([x \in 1..quadNumber(cells) |-> x - 1],
            LAMBDA q :
              Cardinality({j \in (CellStride * q + 1)..(CellStride * (q + 1) - 1) :
                             At(cells, j) \in bad}) >= 2)

\* lines 286-293: the (src, dst) of the calls for quad q
MiddleCalls(cells, q) ==
  LET i == At(cells, CellStride * q + 1)
      j == At(cells, CellStride * q + 2)
      k == At(cells, CellStride * q + 3)
      l == At(cells, CellStride * q + 4)
  IN << <<j, i>>, <<j, k>>, <<l, i>>, <<l, k>> >>

RECURSIVE RunMiddleCalls(_, _, _)
RunMiddleCalls(todo, pos, S) ==
  IF todo = <<>>
  THEN S
  ELSE RunMiddleCalls(Tail(todo), pos,
         UNION { IF st.aborted THEN {st}
                 ELSE findSeparatrixMiddle(Head(todo)[1], Head(todo)[2], pos, st)
                 : st \in S })

\* lines 273-294: the point buffers the subdivision can leave
Subdivide(cells, sepNumber) ==
  LET bad == badQuads(cells, badPoints(cells, sepNumber))
      todo == Flatten([x \in 1..Len(bad) |-> MiddleCalls(cells, bad[x])])
  IN IF todo = <<>>
     THEN {[points |-> <<>>, middles |-> {}, aborted |-> FALSE]}
     ELSE RunMiddleCalls(todo, sepFlatEdgesPos,
                         {[points |-> <<>>, middles |-> {}, aborted |-> FALSE]})

(***************************************************************************)
(* execute, lines 368-446.                                                 *)
(***************************************************************************)
\* line 390
OddCount(flat) == Len(flat) % 2 # 0

\* faulty variant: the buffers are not cleared
NotCleared(buffer) == buffer

\* lines 377-378
Cleared(buffer) == <<>>

\* lines 390-396: the early return
ExecuteFails(flat) ==
  /\ OddCount(flat)
  /\ outputCells' = Cleared(outputCells)
  /\ outputPoints' = Cleared(outputPoints)
  /\ ret' = "error"
  /\ builder' = "none"
  /\ ndegen' = 0
  /\ tableOverrun' = FALSE
  /\ validQuad' = <<>>

\* lines 409-410 and 416-445
ExecuteDual(flat) ==
  /\ ~OddCount(flat)
  /\ dualQuadrangulation
  /\ \E cells \in dualQuadrangulate(sepEdges(flat)) :
       outputCells' = Cleared(outputCells) \o cells
  /\ outputPoints' = Cleared(outputPoints)
  /\ ret' = "ok"
  /\ builder' = "dualQuadrangulate"
  /\ ndegen' = 0
  /\ tableOverrun' = FALSE
  /\ validQuad' = <<>>

\* lines 411-414 and 416-445
ExecuteDirect(flat) ==
  LET edges == sepEdges(flat)
      cands == CandidateQuads(edges)
  IN /\ ~OddCount(flat)
     /\ ~dualQuadrangulation
     /\ builder' = "quadrangulate"
     /\ tableOverrun' = IndexPastTable(edges)
     /\ \/ \* the write past the table (line 151) ends the run
           /\ IndexPastTable(edges)
           /\ ret' = "aborted"
           /\ outputCells' = Cleared(outputCells)
           /\ outputPoints' = Cleared(outputPoints)
           /\ ndegen' = 0
           /\ validQuad' = <<>>
        \/ \* it lands outside the table, or there is none
           \E v \in Validations(cands) :
             LET cells == Cleared(outputCells) \o EmittedCells(cands, v)
             IN \E st \in Subdivide(cells, pointSepNumber(edges)) :
                  /\ outputCells' = cells
                  /\ outputPoints' = Cleared(outputPoints) \o st.points
                  /\ ndegen' = CountDegenerate(cands)
                  /\ validQuad' = [x \in 1..Len(v) |->
                                     [quad |-> cands[x].quad,
                                      degenerate |-> cands[x].degenerate,
                                      valid |-> v[x]]]
                  /\ ret' = IF st.aborted THEN "aborted" ELSE "ok"

Inputs == <<criticalPointsNumber, criticalPointsType, criticalPointsCellIds,
            criticalPointsIdentifier, sepCellIds, sepMask, sepPoints,
            segmentation, vertexNeighbors, dualQuadrangulation>>

execute ==
  /\ ret # "aborted"
  /\ LET flat == sepFlatEdges
     IN ExecuteFails(flat) \/ ExecuteDual(flat) \/ ExecuteDirect(flat)
  /\ UNCHANGED <<Inputs, calls, sepMiddles, lastCall>>

(***************************************************************************)
(* The inputs of the model.                                                *)
(***************************************************************************)
\* numbers of critical points
CritCounts == 4..5

\* minimum, saddle, maximum, saddle, ...
TypePattern == <<0, 1, 2, 1, 0, 1>>

\* cell id of critical point i
CellIdOf(i) == 10 + i

\* the samples at even rows come from these cells (sources of the edges)
SrcCells == {CellIdOf(1), CellIdOf(3)}

\* the samples at odd rows from these (destinations); the last one is the
\* cell of no critical point when there are only 4
DstCells == {CellIdOf(0), CellIdOf(2), CellIdOf(4)}

SampleSeqs(n) ==
  { [x \in 1..n |-> IF x % 2 = 1 THEN a[(x + 1) \div 2] ELSE b[x \div 2]]
    : a \in [1..((n + 1) \div 2) -> SrcCells], b \in [1..(n \div 2) -> DstCells] }

\* rows whose mask bit the inputs vary
MaskableRows == {2}

MaskSeqs(n) ==
  { [x \in 1..n |-> IF (x - 1) \in M THEN Masked ELSE 0]
    : M \in SUBSET (MaskableRows \cap 0..(n - 1)) }

\* row r lies at x = r * r on the x axis
PointSeq(n) ==
  Flatten([x \in 1..n |-> <<(x - 1) * (x - 1), 0, 0>>])

\* one isolated vertex per critical point
IsolatedVertices(n) == [x \in 1..n |-> <<>>]

\* all vertices in one region, or each in its own
SegChoices(n) == { [x \in 1..n |-> 0], [x \in 1..n |-> x - 1] }

\* no findSeparatrixMiddle call yet
NoCall == [src |-> -1, dst |-> -1, repeated |-> FALSE, appended |-> 0,
           cacheChanged |-> FALSE, aborted |-> FALSE, count |-> 0]

\* what the caller's buffers can hold before a call
DirtyBuffers == { <<<<>>, <<>>>>, << <<QuadSize, 0, 1, 2, 3>>, <<1, 0, 0>> >> }

Init ==
  /\ criticalPointsNumber \in CritCounts
  /\ criticalPointsType = SubSeq(TypePattern, 1, criticalPointsNumber)
  /\ criticalPointsCellIds = [x \in 1..criticalPointsNumber |-> CellIdOf(x - 1)]
  /\ criticalPointsIdentifier = [x \in 1..criticalPointsNumber |-> x - 1]
  /\ \E n \in 0..MaxSamples :
       /\ sepCellIds \in SampleSeqs(n)
       /\ sepMask \in MaskSeqs(n)
       /\ sepPoints = PointSeq(n)
  /\ vertexNeighbors = IsolatedVertices(criticalPointsNumber)
  /\ segmentation \in SegChoices(criticalPointsNumber)
  /\ dualQuadrangulation \in BOOLEAN
  /\ \E d \in DirtyBuffers : outputCells = d[1] /\ outputPoints = d[2]
  /\ ret = "none"
  /\ ndegen = 0
  /\ builder = "none"
  /\ tableOverrun = FALSE
  /\ validQuad = <<>>
  /\ calls = <<>>
  /\ sepMiddles = {}
  /\ lastCall = NoCall

Next == execute

Spec == Init /\ [][Next]_vars

(***************************************************************************)
(* hasCommonManifold called on its own.                                    *)
(***************************************************************************)
\* every vertex has the two neighbours before and after it
Ring(n) == [x \in 1..n |-> <<(x + n - 2) % n, x % n>>]

\* two paths 1 - 0 - 2 and 4 - 3 - 5: the end vertices have fewer
\* neighbours than the middle ones
Triples ==
  << <<1, 2>>, <<0>>, <<0>>, <<4, 5>>, <<3>>, <<3>> >>

\* the region of a vertex
RegionOf(v) == v \div 3

\* the vertices of the critical points of these runs
OraclePoints == <<0, 3>>

\* the lists of points of a call
VertLists ==
  UNION { [1..n -> Indices(OraclePoints)] : n \in 1..MaxVerts }

OracleInit ==
  /\ \/ vertexNeighbors = Ring(NumVertices)
     \/ vertexNeighbors = Triples
  /\ segmentation = [x \in 1..Len(vertexNeighbors) |-> RegionOf(x - 1)]
  /\ criticalPointsIdentifier = OraclePoints
  /\ criticalPointsNumber = Len(OraclePoints)
  /\ criticalPointsType = [x \in 1..Len(OraclePoints) |-> 1]
  /\ criticalPointsCellIds = [x \in 1..Len(OraclePoints) |-> CellIdOf(x - 1)]
  /\ sepCellIds = <<>>
  /\ sepMask = <<>>
  /\ sepPoints = <<>>
  /\ dualQuadrangulation = FALSE
  /\ outputCells = <<>>
  /\ outputPoints = <<>>
  /\ ret = "none"
  /\ ndegen = 0
  /\ builder = "none"
  /\ tableOverrun = FALSE
  /\ validQuad = <<>>
  /\ calls = <<>>
  /\ sepMiddles = {}
  /\ lastCall = NoCall

\* one call of hasCommonManifold(verts), the traversals of the critical
\* points given; calls keeps the latest two
CallWith(traversals) ==
  /\ Len(calls) < 2
  /\ \E verts \in VertLists :
       \E result \in CommonManifold(traversals, verts) :
         calls' = Append(calls,
                    [verts |-> verts,
                     result |-> result,
                     visited |-> [i \in 1..Len(verts) |->
                                    MostVisited(At(traversals, verts[i]))]])
  /\ UNCHANGED <<Inputs, outputCells, outputPoints, ret, ndegen, builder,
                 tableOverrun, validQuad, sepMiddles, lastCall>>

CallHasCommonManifold == CallWith(Traversals(criticalPointsNumber))

OracleNext == CallHasCommonManifold

SpecOracle == OracleInit /\ [][OracleNext]_vars

(***************************************************************************)
(* findSeparatrixMiddle called on its own, the calls sharing one cache.    *)
(***************************************************************************)
\* x coordinates of the rows: evenly spaced, or bunched at the start
PointChoices(n) ==
  { Flatten([x \in 1..n |-> <<x - 1, 0, 0>>]), PointSeq(n) }

MiddleInit ==
  /\ criticalPointsNumber = 4
  /\ criticalPointsType = SubSeq(TypePattern, 1, criticalPointsNumber)
  /\ criticalPointsCellIds = [x \in 1..criticalPointsNumber |-> CellIdOf(x - 1)]
  /\ criticalPointsIdentifier = [x \in 1..criticalPointsNumber |-> x - 1]
  /\ \E n \in 0..MiddleSamples :
       /\ sepCellIds \in SampleSeqs(n)
       /\ sepMask \in MaskSeqs(n)
       /\ sepPoints \in PointChoices(n)
  /\ vertexNeighbors = IsolatedVertices(criticalPointsNumber)
  /\ segmentation = [x \in 1..criticalPointsNumber |-> 0]
  /\ dualQuadrangulation = FALSE
  /\ outputCells = <<>>
  /\ outputPoints = <<>>
  /\ ret = "none"
  /\ ndegen = 0
  /\ builder = "none"
  /\ tableOverrun = FALSE
  /\ validQuad = <<>>
  /\ calls = <<>>
  /\ sepMiddles = {}
  /\ lastCall = NoCall

\* one call findSeparatrixMiddle(src, dst, sepFlatEdgesPos, sepMiddles)
CallFindSeparatrixMiddle ==
  /\ lastCall.count < MaxCalls
  /\ ~lastCall.aborted
  /\ \E src \in 0..(criticalPointsNumber - 1), dst \in 0..(criticalPointsNumber - 1) :
       \E st \in findSeparatrixMiddle(src, dst, sepFlatEdgesPos,
                                      [points |-> outputPoints,
                                       middles |-> sepMiddles,
                                       aborted |-> FALSE]) :
         /\ outputPoints' = st.points
         /\ sepMiddles' = st.middles
         /\ lastCall' = [src |-> src, dst |-> dst,
                         repeated |-> lastCall.src = src /\ lastCall.dst = dst,
                         appended |-> Len(st.points) - Len(outputPoints),
                         cacheChanged |-> st.middles # sepMiddles,
                         aborted |-> st.aborted,
                         count |-> lastCall.count + 1]
  /\ UNCHANGED <<Inputs, outputCells, ret, ndegen, builder, tableOverrun,
                 validQuad, calls>>

MiddleNext == CallFindSeparatrixMiddle

SpecMiddle == MiddleInit /\ [][MiddleNext]_vars

(***************************************************************************)
(* The properties.                                                        *)
(***************************************************************************)
\* quads in the output cell buffer
QuadCount == Len(outputCells) \div 5

\* corner c (1..4) of quad q (0-based) of the output cell buffer
Corner(q, c) == At(outputCells, 5 * q + c)

\* the quads of the output cell buffer, as corner tuples
OutputQuads ==
  [x \in 1..QuadCount |->
     <<Corner(x - 1, 1), Corner(x - 1, 2), Corner(x - 1, 3), Corner(x - 1, 4)>>]

\* samples whose mask bit is not 1
UnmaskedRows == {r \in Indices(sepMask) : At(sepMask, r) # 1}

\* the critical point of a cell id; criticalPointsNumber when there is none
\* (the cell ids of the critical points are distinct)
IndexOfCell(cell) ==
  IF \E i \in Indices(criticalPointsCellIds) : At(criticalPointsCellIds, i) = cell
  THEN CHOOSE i \in Indices(criticalPointsCellIds) :
         At(criticalPointsCellIds, i) = cell
  ELSE criticalPointsNumber

\* the separatrix edges as (source, destination) critical-point indices
IndexEdges ==
  [x \in 1..(Len(sepFlatEdges) \div 2) |->
     <<IndexOfCell(sepFlatEdges[2 * x - 1]), IndexOfCell(sepFlatEdges[2 * x])>>]

\* C1: when the number of samples whose mask bit is not 1 is odd, execute
\* returns the failure status, both output buffers are empty whatever they
\* held before, and no builder ran.
C1_OddCountFails ==
  (ret # "none" /\ Cardinality(UnmaskedRows) % 2 = 1) =>
    /\ ret = "error"
    /\ outputCells = <<>>
    /\ outputPoints = <<>>
    /\ builder = "none"

C1_Witness ==
  /\ ret = "error"
  /\ Cardinality(UnmaskedRows) % 2 = 1
  /\ Cardinality(UnmaskedRows) < Len(sepMask)

\* C2: after a successful execute the cell buffer is a sequence of groups
\* of 5 values, each starting with 4 and followed by four critical-point
\* indices in 0..N-1, whatever the input.
C2_QuadsWellFormed ==
  ret = "ok" =>
    /\ Len(outputCells) % 5 = 0
    /\ \A q \in 0..(QuadCount - 1) :
         /\ At(outputCells, 5 * q) = 4
         /\ \A c \in 1..4 : Corner(q, c) \in 0..(criticalPointsNumber - 1)

\* the scenario of C3: minimum, saddle, maximum, saddle and the edges
\* (1 -> 0) and (3 -> 0), direct mode
Scenario3 ==
  /\ criticalPointsNumber = 4
  /\ criticalPointsType = <<0, 1, 2, 1>>
  /\ sepCellIds = <<CellIdOf(1), CellIdOf(0), CellIdOf(3), CellIdOf(0)>>
  /\ sepMask = <<0, 0, 0, 0>>
  /\ ~dualQuadrangulation

\* C3 as stated: in the scenario execute emits a degenerate quad and
\* counts one degenerate quad.
C3_Original ==
  (Scenario3 /\ ret # "none") =>
    /\ ndegen = 1
    /\ \E q \in 0..(QuadCount - 1) : Corner(q, 2) = Corner(q, 4)

\* C3 amended: in the scenario execute succeeds, emits no quad at all and
\* counts no degenerate quad (only critical point 0 is a destination, so
\* no pair of destinations exists).
C3_NoQuadInScenario ==
  (Scenario3 /\ ret # "none") =>
    /\ ret = "ok"
    /\ outputCells = <<>>
    /\ ndegen = 0

C3_Witness == Scenario3 /\ ret = "ok" /\ builder = "quadrangulate"

\* C4: after the direct builder, ndegen is the number of emitted quads
\* whose 2nd and 4th corners are equal, and every quad emitted in the
\* at-least-two-common-sources branch has distinct 2nd and 4th corners.
C4_DegenerateCount ==
  (builder = "quadrangulate" /\ ret = "ok") =>
    /\ ndegen = Cardinality({q \in 0..(QuadCount - 1) : Corner(q, 2) = Corner(q, 4)})
    /\ \A x \in 1..Len(validQuad) :
         (~validQuad[x].degenerate /\ validQuad[x].valid) =>
           /\ validQuad[x].quad[2] # validQuad[x].quad[4]
           /\ \E y \in 1..QuadCount : OutputQuads[y] = validQuad[x].quad

C4_Witness ==
  /\ builder = "quadrangulate"
  /\ ret = "ok"
  /\ ndegen = 1
  /\ QuadCount = 1
  /\ Corner(0, 2) = Corner(0, 4)

\* destinations of source s in the edge list
DestsOf(s) ==
  LET own == SelectSeq(IndexEdges, LAMBDA e : e[1] = s)
  IN [x \in 1..Len(own) |-> own[x][2]]

\* the sources with exactly 4 destinations, ascending (a cell id of no
\* critical point counts as source N)
SourcesWithFour ==
  SortedSeq({s \in 0..criticalPointsNumber : Len(DestsOf(s)) = 4})

SourcesOf(d) ==
  { e[1] : e \in { f \in {IndexEdges[x] : x \in 1..Len(IndexEdges)} :
                     f[2] = d /\ f[1] < criticalPointsNumber } }

\* how many times the quad appears in the cell buffer
Times(quad) == Cardinality({x \in 1..QuadCount : OutputQuads[x] = quad})

\* C8: in direct mode, for critical points i < k of differing type that
\* both have incident sources and share at least 2, exactly one quad
\* (i, j, k, l) per pair j < l of common sources that hasCommonManifold
\* accepts and none for the other pairs; every non-degenerate quad is of
\* this form, its four sides being edges of the list.
C8_PairsEmitted ==
  (builder = "quadrangulate" /\ ret = "ok") =>
    /\ \A i, k \in 0..(criticalPointsNumber - 1) :
         LET common == SourcesOf(i) \cap SourcesOf(k)
         IN (/\ i < k
             /\ At(criticalPointsType, i) # At(criticalPointsType, k)
             /\ Cardinality(common) >= 2) =>
              \A j, l \in common :
                j < l =>
                  Times(<<i, j, k, l>>)
                    = IF hasCommonManifold(<<j, l>>) = {TRUE} THEN 1 ELSE 0
    /\ \A x \in 1..QuadCount :
         LET q == OutputQuads[x]
         IN q[2] # q[4] =>
              /\ {q[2], q[4]} \subseteq SourcesOf(q[1]) \cap SourcesOf(q[3])
              /\ At(criticalPointsType, q[1]) # At(criticalPointsType, q[3])

\* C10: in the direct builder, when every cell id of the edge list is the
\* cell of a critical point, every index into the destination table is
\* below the table's length.
C10_TableInBounds ==
  (builder = "quadrangulate"
   /\ \A x \in 1..Len(IndexEdges) :
        /\ IndexEdges[x][1] < criticalPointsNumber
        /\ IndexEdges[x][2] < criticalPointsNumber) =>
    ~tableOverrun

\* how often point p occurs in a list
Occurrences(verts, p) == Cardinality({x \in 1..Len(verts) : verts[x] = p})

IsPermutation(a, b) ==
  \A p \in Indices(OraclePoints) : Occurrences(a, p) = Occurrences(b, p)

IsPrefix(a, b) == Len(a) <= Len(b) /\ SubSeq(b, 1, Len(a)) = a

\* C5: hasCommonManifold gives the same boolean for every permutation of
\* a list, and once false it stays false when points are added.
C5_OrderAndMonotone ==
  Len(calls) = 2 =>
    /\ IsPermutation(calls[1].verts, calls[2].verts) =>
         calls[1].result = calls[2].result
    /\ (IsPrefix(calls[1].verts, calls[2].verts) /\ ~calls[1].result) =>
         ~calls[2].result

\* C9 as stated: a traversal visits at most 20 distinct vertices.
C9_Original ==
  \A x \in 1..Len(calls) :
    \A i \in 1..Len(calls[x].visited) : calls[x].visited[i] <= 20

\* C9 amended: a traversal visits at most 21 distinct vertices (the cap is
\* tested after the 21st has been recorded), on every triangulation, and
\* every traversal ends.
C9_VisitsAtMostTwentyOne ==
  \A x \in 1..Len(calls) :
    \A i \in 1..Len(calls[x].visited) : calls[x].visited[i] <= 21

C9_Witness ==
  /\ Len(vertexNeighbors) > 21
  /\ \E x \in 1..Len(calls) :
       \E i \in 1..Len(calls[x].visited) : calls[x].visited[i] = 21

\* C6: a second findSeparatrixMiddle call with the same (src, dst), the
\* same position list and the same cache appends no coordinate and leaves
\* the cache as it was.
C6_Idempotent ==
  lastCall.repeated =>
    /\ lastCall.appended = 0
    /\ ~lastCall.cacheChanged

====
